---- MODULE Spec2Model ----
(***************************************************************************)
(* Model of the Spansion S25FS/S25FL helper driver (s25f.c): the block     *)
(* erase entry point with its one-time CR3NV check, the register access    *)
(* helpers, the two software resets, the status poller, the restore        *)
(* callback and the probe, together with the flash chip they talk to; and  *)
(* of the segregator tool (segregator.c).                                  *)
(*                                                                         *)
(* One program step is one SPI exchange (or one chain) followed by the     *)
(* straight-line code up to the next exchange.  The chip is a second       *)
(* process: an embedded operation it has accepted finishes or latches an   *)
(* error at a moment of its own choosing.                                  *)
(*                                                                         *)
(* Specifications: Spec (erase calls, teardown and sessions), FairSpec     *)
(* (the erase calls of one session, with fairness), RegSpec (a register    *)
(* write followed by a read-back), ProbeSpec (the probe), SegSpec (the     *)
(* segregator: segregate, then aggregate).                                 *)
(***************************************************************************)
EXTENDS Integers, Sequences, FiniteSets, TLC

(* ------------------------------ bounds -------------------------------- *)
MaxCalls == 2
MaxSessions == 2
MaxPolls == 2
MaxLen == 4

Handles == {1, 2}
\* CR3NV values of the chips at power-up: hybrid, hybrid with other bits, uniform
OrigValues == {0, 18, 8}
\* erase addresses handed in by the caller: 0x010203, and the address above
\* 2^24 with the same low 24 bits
Addrs == {66051, 16777216 + 66051}
\* block lengths handed in by the caller: 64 KiB and 256 KiB sectors
BlockLens == {65536, 262144}
\* the calls explored: the low address with the first length, the high
\* address with the second
EraseArgs ==
    { args \in Addrs \X BlockLens : (args[1] < 16777216) <=> (args[2] = 65536) }
\* results of the transport, 0 is success: where the code hands the result on
\* (Results), and where it only tests it for zero (Outcomes)
Results == {0, -1, 1}
Outcomes == {0, -1}

(* ----------------------------- constants ------------------------------ *)
CMD_RDAR == 101
CMD_WRAR == 113
CMD_RSTEN == 102
CMD_RST == 153
CMD_LEGACY_RST == 240
CR3NV_ADDR == 4
CR3NV_20H_NV == 8
T_W == 145 * 1000
T_RPH == 35
S25FS_T_SE == 145 * 1000
T_POLL == 1000 * 10
JEDEC_WREN == 6
JEDEC_BE_D8 == 216
SPI_SR_WIP == 1
SPI_SR_ERA_ERR == 32
SPI_SR_PRG_ERR == 64

(* --------------------------- byte arithmetic -------------------------- *)
\* v & mask # 0 for a one-bit mask
Bit(v, mask) == (v \div mask) % 2 = 1
\* v | mask for a one-bit mask
SetBit(v, mask) == IF Bit(v, mask) THEN v ELSE v + mask
\* conversion of an int to unsigned char / uint8_t
ToU8(x) == x % 256
\* variant: the three bytes are taken one byte too high
AddrBytes_High(a) == <<(a \div 16777216) % 256, (a \div 65536) % 256, (a \div 256) % 256>>
\* (a >> 16) & 0xff, (a >> 8) & 0xff, a & 0xff
AddrBytes(a) == <<(a \div 65536) % 256, (a \div 256) % 256, a % 256>>

(* ------------------------------ frames -------------------------------- *)
\* read_cr_cmd[]: opcode, 3 address bytes, 8 dummy bytes
ReadCrCmd(a) == <<CMD_RDAR>> \o AddrBytes(a) \o <<0, 0, 0, 0, 0, 0, 0, 0>>
\* variant: the WRAR frame carries the address low byte first
WriteCrCmds_AddrLsbFirst(a, d) ==
    << <<JEDEC_WREN>>, <<CMD_WRAR, a % 256, (a \div 256) % 256, (a \div 65536) % 256, d>> >>
\* cmds[] of s25fs_write_cr: write enable, then WRAR + address + data
WriteCrCmds(a, d) == << <<JEDEC_WREN>>, <<CMD_WRAR>> \o AddrBytes(a) \o <<d>> >>
\* variant: write enable goes out after the erase command
EraseCmds_WrenLast(a, bl) == << <<JEDEC_BE_D8>> \o AddrBytes(a), <<JEDEC_WREN>> >>
\* erase_cmds[]: write enable, then D8 + address; blocklen is not used
EraseCmds(a, bl) == << <<JEDEC_WREN>>, <<JEDEC_BE_D8>> \o AddrBytes(a) >>
\* variant: the legacy reset goes out without reset enable
LegacyResetCmds_NoEnable == << <<CMD_LEGACY_RST>> >>
LegacyResetCmds == << <<CMD_RSTEN>>, <<CMD_LEGACY_RST>> >>
SoftwareResetCmds == << <<CMD_RSTEN>>, <<CMD_RST>> >>

\* one entry of the bus/timer log of the running call:
\*   k = "chain" (spi_send_multicommand, v = its result),
\*       "cmd"   (spi_send_command, v = what s25fs_read_cr returned),
\*       "rdsr"  (spi_read_status_register, v = the status byte),
\*       "delay" (programmer_delay, v = microseconds),
\*       "reg"   (register_chip_restore, v = the captured value)
Ev(k, f, v) == [k |-> k, f |-> f, v |-> v]

(* ------------------------------ the chip ------------------------------ *)
\* the registers of the chip that Read/Write Any Register reach here: CR1NV
\* (0x000002) and CR3NV (0x000004)
RegAddrs == {2, CR3NV_ADDR}
\* regs: the registers by address; sr: status register 1; op/pa/pend: the
\* embedded operation in progress, with the address and value of a register
\* write; legacy: whether the 0xF0 reset is honoured
IdleDev(o, lg) ==
    [regs |-> [a \in RegAddrs |-> IF a = CR3NV_ADDR THEN o ELSE 0],
     sr |-> 0, op |-> "none", pa |-> 0, pend |-> 0, legacy |-> lg]
\* the architecture register of chip d
Cr3nv(d) == d.regs[CR3NV_ADDR]
\* the 24-bit address the chip takes from the three bytes after the opcode
FrameAddr(frame) == frame[2] * 65536 + frame[3] * 256 + frame[4]
\* the chip receives write enable and a WRAR frame; a chip that is busy or has
\* an error latched ignores write commands, as it does an address it has no
\* register at
DevWrar(d, frame) ==
    IF d.sr = 0 /\ FrameAddr(frame) \in RegAddrs
       THEN [d EXCEPT !.sr = SPI_SR_WIP, !.op = "wrar",
                      !.pa = FrameAddr(frame), !.pend = frame[5]]
       ELSE d
\* the byte the chip answers an RDAR frame with
DevRdar(d, frame) ==
    IF FrameAddr(frame) \in RegAddrs THEN d.regs[FrameAddr(frame)] ELSE 0
DevErase(d) ==
    IF d.sr = 0 THEN [d EXCEPT !.sr = SPI_SR_WIP, !.op = "erase"] ELSE d
DevReset(d) == [d EXCEPT !.sr = 0, !.op = "none", !.pa = 0, !.pend = 0]
DevLegacyReset(d) == IF d.legacy THEN DevReset(d) ELSE d
\* busy with an embedded operation and no error latched
DevBusy(d) == d.sr = SPI_SR_WIP

(* ------------------------- decisions of the code ---------------------- *)
\* variant: the flag is not consulted
NeedsCr3nvCheck_Always(checked) == TRUE
\* if (!cr3nv_checked)
NeedsCr3nvCheck(checked) == checked = 0
\* variant: the mask is 1 << 2
IsUniform_WrongBit(c) == Bit(c, 4)
\* cfg & CR3NV_20H_NV
IsUniform(c) == Bit(c, CR3NV_20H_NV)
\* variant: the re-read is not tested
VerifyFailed_Never(c) == FALSE
\* the test of the re-read: if (!(cfg & CR3NV_20H_NV)) return 1;
VerifyFailed(c) == ~IsUniform(c)
\* s25fs_read_cr: -1 on a transport failure, else the byte read
ReadCrResult(r, byte) == IF r # 0 THEN -1 ELSE byte
\* variant: the loop goes on whatever the sample shows
PollStep_NeverEnds(tmp) == "sleep"
\* variant: a busy sample ends the loop instead of sleeping
PollStep_BusyReturns(tmp) ==
    IF ~Bit(tmp, SPI_SR_WIP) THEN "clean"
    ELSE IF Bit(tmp, SPI_SR_ERA_ERR) THEN "fault"
    ELSE IF Bit(tmp, SPI_SR_PRG_ERR) THEN "fault"
    ELSE "clean"
\* variant: an error bit ends the loop like a cleared WIP does
PollStep_ErrorIsClean(tmp) ==
    IF ~Bit(tmp, SPI_SR_WIP) THEN "clean"
    ELSE IF Bit(tmp, SPI_SR_ERA_ERR) THEN "clean"
    ELSE IF Bit(tmp, SPI_SR_PRG_ERR) THEN "clean"
    ELSE "sleep"
\* one round of the loop of s25f_poll_status on the sample tmp
PollStep(tmp) ==
    IF ~Bit(tmp, SPI_SR_WIP) THEN "clean"
    ELSE IF Bit(tmp, SPI_SR_ERA_ERR) THEN "fault"
    ELSE IF Bit(tmp, SPI_SR_PRG_ERR) THEN "fault"
    ELSE "sleep"
\* the value handed to register_chip_restore: cfg, which by then holds the
\* re-read and no longer the first read
RestoreArg(first, reread) == reread
\* variant: the result of the chain is not tested
ChainFailed_Never(r) == FALSE
\* if (result) after spi_send_multicommand
ChainFailed(r) == r # 0

\* a | b on 32-bit two's complement ints: the low 30 bits and the two high
\* bits (sign included) are combined separately
\* variant: ret = instead of ret |=
BitOr_Assign(a, b) == b
RECURSIVE OrBits(_, _, _)
OrBits(a, b, n) ==
    IF n = 0 THEN 0
    ELSE (IF a % 2 = 1 \/ b % 2 = 1 THEN 1 ELSE 0) + 2 * OrBits(a \div 2, b \div 2, n - 1)
BitOr(a, b) ==
    LET lo == OrBits(a % 1073741824, b % 1073741824, 30)
        hi == OrBits((a \div 1073741824) % 4, (b \div 1073741824) % 4, 2)
    IN  (IF hi >= 2 THEN hi - 4 ELSE hi) * 1073741824 + lo

\* the probe's buffer and descriptor, and the segregator's files, while unused
NoId == <<0, 0, 0, 0, 0, 0>>
NoChip == [manufacture_id |-> 0, model_id |-> <<0, 0, 0, 0>>]
NoSeg == [aggr |-> <<>>, even |-> <<>>, odd |-> <<>>, out |-> <<>>, overrun |-> 0,
          blk_size |-> 0, unpad_it |-> 0]

VARIABLES
    cr3nv_checked,  \* static int cr3nv_checked of s25fs_block_erase_d8
    chip_restore,   \* entries registered with register_chip_restore
    dev,            \* the chips that a session has been opened on, by handle
    pc, cont,       \* position of the program, and where the callee returns to
    flash, addr, blocklen, cfg, data, rv, ret, slept,
    log,            \* bus/timer log of the running call
    sess, calls, scall, closing,
    nreg,           \* entries registered in the current session
    fastPath,       \* the read at the head of the check has returned bit 3 set
    afterFast,      \* WRAR chains, forced resets, registrations since then
    entryChecked,   \* cr3nv_checked on entry to the running call
    orig,           \* CR3NV of the chip when its conversion began
    xfail,          \* some exchange of the process has failed in the transport
    dev_id,         \* unsigned char dev_id[6] of probe_spi_big_spansion
    chip,           \* flash->chip: the descriptor the probe compares against
    host_le,        \* the host stores a uint32_t least significant byte first
    seg             \* segregator: the files by role, and the options given

vars == <<cr3nv_checked, chip_restore, dev, pc, cont, flash, addr, blocklen, cfg,
          data, rv, ret, slept, log, sess, calls, scall, closing, nreg,
          fastPath, afterFast, entryChecked, orig, xfail,
          dev_id, chip, host_le, seg>>

\* what the driver's erase and restore paths never touch
toolVars == <<dev_id, chip, host_le, seg>>

Init ==
    /\ cr3nv_checked = 0
    /\ chip_restore = <<>>
    /\ \E o \in OrigValues, lg \in BOOLEAN : dev = (1 :> IdleDev(o, lg))
    /\ pc = "idle" /\ cont = "none"
    /\ flash = 1
    /\ addr = 0 /\ blocklen = 0 /\ cfg = 0 /\ data = 0 /\ rv = 0 /\ ret = 0
    /\ slept = 0
    /\ log = <<>>
    /\ sess = 1 /\ calls = 0 /\ scall = 0 /\ closing = FALSE
    /\ nreg = 0
    /\ fastPath = FALSE /\ afterFast = 0
    /\ entryChecked = 0
    /\ orig = 0
    /\ xfail = FALSE
    /\ dev_id = NoId
    /\ chip = NoChip
    /\ host_le = TRUE
    /\ seg = NoSeg

Send(e) == Append(log, e)
Send2(e1, e2) == Append(Append(log, e1), e2)
Bump == IF fastPath THEN afterFast + 1 ELSE afterFast

(* --------------------- s25fs_block_erase_d8 --------------------------- *)
\* entry: the caller's arguments, and the test of the static flag
BlockEraseCall ==
    /\ pc = "idle" /\ ~closing /\ calls < MaxCalls
    /\ \E args \in EraseArgs :
          /\ addr' = args[1]
          /\ blocklen' = args[2]
    /\ calls' = calls + 1
    /\ scall' = scall + 1
    /\ entryChecked' = cr3nv_checked
    /\ log' = <<>>
    /\ pc' = IF NeedsCr3nvCheck(cr3nv_checked) THEN "be_read1" ELSE "be_erase"
    /\ UNCHANGED toolVars
    /\ UNCHANGED <<cr3nv_checked, chip_restore, dev, cont, flash, cfg, data, rv,
                   ret, slept, sess, closing, nreg, fastPath, afterFast, orig, xfail>>

\* cfg = s25fs_read_cr(flash, CR3NV_ADDR); if (!(cfg & CR3NV_20H_NV)) ...
\* else cr3nv_checked = 1
BeRead1 ==
    /\ pc = "be_read1"
    /\ \E r \in Outcomes :
          LET rc == ReadCrResult(r, DevRdar(dev[flash], ReadCrCmd(CR3NV_ADDR)))
              c  == ToU8(rc)
          IN  /\ log' = Send(Ev("cmd", <<ReadCrCmd(CR3NV_ADDR)>>, rc))
              /\ xfail' = (xfail \/ r # 0)
              /\ cfg' = c
              /\ fastPath' = (fastPath \/ Bit(c, 8))
              /\ IF IsUniform(c)
                    THEN /\ cr3nv_checked' = 1
                         /\ pc' = "be_erase"
                         /\ UNCHANGED <<data, cont, orig>>
                    ELSE /\ data' = SetBit(c, CR3NV_20H_NV)
                         /\ cont' = "be_reset"
                         /\ orig' = Cr3nv(dev[flash])
                         /\ pc' = "wr_chain"
                         /\ UNCHANGED cr3nv_checked
    /\ UNCHANGED toolVars
    /\ UNCHANGED <<chip_restore, dev, flash, addr, blocklen, rv, ret, slept, sess,
                   calls, scall, closing, nreg, afterFast, entryChecked>>

\* s25fs_software_reset(flash), its result dropped
BeSoftReset ==
    /\ pc = "be_reset"
    /\ \E r \in Outcomes :
          /\ xfail' = (xfail \/ r # 0)
          /\ IF ChainFailed(r)
                THEN /\ log' = Send(Ev("chain", SoftwareResetCmds, r))
                     /\ UNCHANGED dev
                ELSE /\ log' = Send2(Ev("chain", SoftwareResetCmds, r),
                                     Ev("delay", <<>>, T_RPH * 2))
                     /\ dev' = [dev EXCEPT ![flash] = DevReset(@)]
    /\ afterFast' = Bump
    /\ pc' = "be_reread"
    /\ UNCHANGED toolVars
    /\ UNCHANGED <<cr3nv_checked, chip_restore, cont, flash, addr, blocklen, cfg,
                   data, rv, ret, slept, sess, calls, scall, closing, nreg,
                   fastPath, entryChecked, orig>>

\* cfg = s25fs_read_cr(flash, CR3NV_ADDR); if (!(cfg & CR3NV_20H_NV)) return 1;
BeReread ==
    /\ pc = "be_reread"
    /\ \E r \in Outcomes :
          LET rc == ReadCrResult(r, DevRdar(dev[flash], ReadCrCmd(CR3NV_ADDR)))
              c  == ToU8(rc)
          IN  /\ log' = Send(Ev("cmd", <<ReadCrCmd(CR3NV_ADDR)>>, rc))
              /\ xfail' = (xfail \/ r # 0)
              /\ data' = RestoreArg(cfg, c)
              /\ cfg' = c
              /\ IF VerifyFailed(c)
                    THEN rv' = 1 /\ pc' = "ret"
                    ELSE rv' = rv /\ pc' = "be_read3"
    /\ UNCHANGED toolVars
    /\ UNCHANGED <<cr3nv_checked, chip_restore, dev, cont, flash, addr, blocklen,
                   ret, slept, sess, calls, scall, closing, nreg, fastPath,
                   afterFast, entryChecked, orig>>

\* the read inside the debug message, then register_chip_restore(.., cfg)
\* and cr3nv_checked = 1
BeRegister ==
    /\ pc = "be_read3"
    /\ \E r \in Outcomes :
          /\ xfail' = (xfail \/ r # 0)
          /\ log' = Send2(Ev("cmd", <<ReadCrCmd(CR3NV_ADDR)>>,
                             ReadCrResult(r, DevRdar(dev[flash], ReadCrCmd(CR3NV_ADDR)))),
                          Ev("reg", <<>>, data))
    /\ chip_restore' = Append(chip_restore, [flash |-> flash, cfg |-> data])
    /\ nreg' = nreg + 1
    /\ afterFast' = Bump
    /\ cr3nv_checked' = 1
    /\ pc' = "be_erase"
    /\ UNCHANGED toolVars
    /\ UNCHANGED <<dev, cont, flash, addr, blocklen, cfg, data, rv, ret, slept,
                   sess, calls, scall, closing, fastPath, entryChecked, orig>>

\* result = spi_send_multicommand(flash, erase_cmds); if (result) return result;
\* programmer_delay(S25FS_T_SE); return s25f_poll_status(flash);
BeErase ==
    /\ pc = "be_erase"
    /\ \E r \in Results :
          /\ xfail' = (xfail \/ r # 0)
          /\ IF ChainFailed(r)
             THEN /\ log' = Send(Ev("chain", EraseCmds(addr, blocklen), r))
                  /\ rv' = r
                  /\ pc' = "ret"
                  /\ UNCHANGED <<dev, cont, slept>>
             ELSE /\ log' = Send2(Ev("chain", EraseCmds(addr, blocklen), r),
                                  Ev("delay", <<>>, S25FS_T_SE))
                  /\ dev' = [dev EXCEPT ![flash] = DevErase(@)]
                  /\ cont' = "ret"
                  /\ slept' = 0
                  /\ pc' = "poll"
                  /\ rv' = rv
    /\ UNCHANGED toolVars
    /\ UNCHANGED <<cr3nv_checked, chip_restore, flash, addr, blocklen, cfg, data,
                   ret, sess, calls, scall, closing, nreg, fastPath, afterFast,
                   entryChecked, orig>>

\* the caller takes the result
BlockEraseReturn ==
    /\ pc = "ret"
    /\ pc' = "idle"
    /\ log' = <<>>
    /\ addr' = 0 /\ blocklen' = 0 /\ cfg' = 0 /\ data' = 0 /\ rv' = 0
    /\ slept' = 0 /\ cont' = "none" /\ entryChecked' = 0
    /\ UNCHANGED toolVars
    /\ UNCHANGED <<cr3nv_checked, chip_restore, dev, flash, ret, sess, calls,
                   scall, closing, nreg, fastPath, afterFast, orig, xfail>>

(* --------------------------- s25fs_write_cr --------------------------- *)
\* s25fs_write_cr(flash, a, data); returns to cont
WriteCrAt(a) ==
    /\ pc = "wr_chain"
    /\ \E r \in Outcomes :
          /\ xfail' = (xfail \/ r # 0)
          /\ IF ChainFailed(r)
             THEN /\ log' = Send(Ev("chain", WriteCrCmds(a, data), r))
                  /\ rv' = -1
                  /\ pc' = cont
                  /\ UNCHANGED <<dev, slept>>
             ELSE /\ log' = Send2(Ev("chain", WriteCrCmds(a, data), r),
                                  Ev("delay", <<>>, T_W))
                  /\ dev' = [dev EXCEPT ![flash] = DevWrar(@, WriteCrCmds(a, data)[2])]
                  /\ slept' = 0
                  /\ pc' = "poll"
                  /\ rv' = rv
    /\ afterFast' = Bump
    /\ UNCHANGED toolVars
    /\ UNCHANGED <<cr3nv_checked, chip_restore, cont, flash, addr, blocklen, cfg,
                   data, ret, sess, calls, scall, closing, nreg, fastPath,
                   entryChecked, orig>>

\* the two callers in this file write the architecture register
WriteCr == WriteCrAt(CR3NV_ADDR)

(* -------------------------- s25f_poll_status -------------------------- *)
\* one sample of the status register and the loop's decision on it
PollStatus ==
    /\ pc = "poll"
    /\ LET tmp == dev[flash].sr
           d   == PollStep(tmp)
       IN  /\ d = "sleep" => slept < MaxPolls
           /\ CASE d = "clean" -> /\ log' = Send(Ev("rdsr", <<>>, tmp))
                                  /\ rv' = 0
                                  /\ pc' = cont
                                  /\ slept' = slept
                [] d = "fault" -> /\ log' = Send(Ev("rdsr", <<>>, tmp))
                                  /\ rv' = rv
                                  /\ pc' = "lreset"
                                  /\ slept' = slept
                [] d = "sleep" -> /\ log' = Send2(Ev("rdsr", <<>>, tmp),
                                                  Ev("delay", <<>>, T_POLL))
                                  /\ rv' = rv
                                  /\ pc' = "poll"
                                  /\ slept' = slept + 1
    /\ UNCHANGED toolVars
    /\ UNCHANGED <<cr3nv_checked, chip_restore, dev, cont, flash, addr, blocklen,
                   cfg, data, ret, sess, calls, scall, closing, nreg, fastPath,
                   afterFast, entryChecked, orig, xfail>>

(* --------------------- s25f_legacy_software_reset --------------------- *)
\* called by the poller on an error, which drops its result and returns -1
LegacyReset ==
    /\ pc = "lreset"
    /\ \E r \in Outcomes :
          /\ xfail' = (xfail \/ r # 0)
          /\ IF ChainFailed(r)
             THEN /\ log' = Send(Ev("chain", LegacyResetCmds, r))
                  /\ UNCHANGED dev
             ELSE /\ log' = Send2(Ev("chain", LegacyResetCmds, r),
                                  Ev("delay", <<>>, T_RPH * 2))
                  /\ dev' = [dev EXCEPT ![flash] = DevLegacyReset(@)]
    /\ rv' = -1
    /\ pc' = cont
    /\ UNCHANGED toolVars
    /\ UNCHANGED <<cr3nv_checked, chip_restore, cont, flash, addr, blocklen, cfg,
                   data, ret, slept, sess, calls, scall, closing, nreg, fastPath,
                   afterFast, entryChecked, orig>>

(* ------------------------- s25fs_restore_cr3nv ------------------------ *)
\* teardown takes the last entry and calls s25fs_restore_cr3nv(flash, cfg)
RestoreCall ==
    /\ pc = "idle" /\ chip_restore # <<>>
    /\ LET e == chip_restore[Len(chip_restore)]
       IN  /\ flash' = e.flash
           /\ cfg' = e.cfg
           /\ data' = e.cfg
    /\ chip_restore' = SubSeq(chip_restore, 1, Len(chip_restore) - 1)
    /\ closing' = TRUE
    /\ ret' = 0
    /\ log' = <<>>
    /\ cont' = "rs_reset"
    /\ pc' = "wr_chain"
    /\ UNCHANGED toolVars
    /\ UNCHANGED <<cr3nv_checked, dev, addr, blocklen, rv, slept, sess, calls,
                   scall, nreg, fastPath, afterFast, entryChecked, orig, xfail>>

\* ret |= (result of s25fs_write_cr); ret |= s25fs_software_reset(flash)
RsSoftReset ==
    /\ pc = "rs_reset"
    /\ \E r \in Results :
          /\ xfail' = (xfail \/ r # 0)
          /\ IF ChainFailed(r)
                THEN /\ log' = Send(Ev("chain", SoftwareResetCmds, r))
                     /\ UNCHANGED dev
                ELSE /\ log' = Send2(Ev("chain", SoftwareResetCmds, r),
                                     Ev("delay", <<>>, T_RPH * 2))
                     /\ dev' = [dev EXCEPT ![flash] = DevReset(@)]
          /\ ret' = BitOr(BitOr(ret, rv), r)
    /\ afterFast' = Bump
    /\ pc' = "rs_ret"
    /\ UNCHANGED toolVars
    /\ UNCHANGED <<cr3nv_checked, chip_restore, cont, flash, addr, blocklen, cfg,
                   data, rv, slept, sess, calls, scall, closing, nreg, fastPath,
                   entryChecked, orig>>

\* teardown takes the result of the callback
RestoreReturn ==
    /\ pc = "rs_ret"
    /\ pc' = "idle"
    /\ log' = <<>>
    /\ cfg' = 0 /\ data' = 0 /\ rv' = 0 /\ ret' = 0 /\ slept' = 0 /\ cont' = "none"
    /\ UNCHANGED toolVars
    /\ UNCHANGED <<cr3nv_checked, chip_restore, dev, flash, addr, blocklen, sess,
                   calls, scall, closing, nreg, fastPath, afterFast, entryChecked,
                   orig, xfail>>

\* the session is over; the process opens the next one, on the same chip or
\* on a chip not used before (which is idle, in its power-up configuration).
\* A session that never called the driver changes nothing and is left out.
SessionEnd ==
    /\ pc = "idle" /\ chip_restore = <<>> /\ sess < MaxSessions /\ scall >= 1
    /\ sess' = sess + 1
    /\ \E h \in Handles :
          /\ flash' = h
          /\ IF h \in DOMAIN dev
                THEN dev' = dev
                ELSE \E o \in OrigValues, lg \in BOOLEAN :
                        dev' = dev @@ (h :> IdleDev(o, lg))
    /\ scall' = 0 /\ nreg' = 0 /\ closing' = FALSE
    /\ UNCHANGED toolVars
    /\ UNCHANGED <<cr3nv_checked, chip_restore, pc, cont, addr, blocklen,
                   cfg, data, rv, ret, slept, log, calls, fastPath, afterFast,
                   entryChecked, orig, xfail>>

(* ------------------------------ the chip ------------------------------ *)
\* the embedded operation completes
DevComplete ==
    /\ \E h \in DOMAIN dev :
          /\ DevBusy(dev[h])
          /\ dev' = [dev EXCEPT ![h] =
                        [@ EXCEPT !.sr = 0, !.op = "none", !.pa = 0, !.pend = 0,
                                  !.regs = IF dev[h].op = "wrar"
                                              THEN [@ EXCEPT ![dev[h].pa] = dev[h].pend]
                                              ELSE @]]
    /\ UNCHANGED toolVars
    /\ UNCHANGED <<cr3nv_checked, chip_restore, pc, cont, flash, addr, blocklen,
                   cfg, data, rv, ret, slept, log, sess, calls, scall, closing,
                   nreg, fastPath, afterFast, entryChecked, orig, xfail>>

\* the embedded operation fails: the error bit latches and WIP stays set
DevFault ==
    /\ \E h \in DOMAIN dev :
          /\ DevBusy(dev[h])
          /\ dev' = [dev EXCEPT ![h] =
                        [@ EXCEPT !.sr = SPI_SR_WIP +
                                         (IF dev[h].op = "erase"
                                             THEN SPI_SR_ERA_ERR
                                             ELSE SPI_SR_PRG_ERR),
                                  !.op = "none", !.pa = 0, !.pend = 0]]
    /\ UNCHANGED toolVars
    /\ UNCHANGED <<cr3nv_checked, chip_restore, pc, cont, flash, addr, blocklen,
                   cfg, data, rv, ret, slept, log, sess, calls, scall, closing,
                   nreg, fastPath, afterFast, entryChecked, orig, xfail>>

Next ==
    \/ BlockEraseCall \/ BeRead1 \/ BeSoftReset \/ BeReread \/ BeRegister
    \/ BeErase \/ BlockEraseReturn
    \/ WriteCr \/ PollStatus \/ LegacyReset
    \/ RestoreCall \/ RsSoftReset \/ RestoreReturn \/ SessionEnd
    \/ DevComplete \/ DevFault

Spec == Init /\ [][Next]_vars

\* The erase calls of one session, without teardown.  The driver is a
\* sequential program: a call that has begun takes its next step.  The chip
\* does not stay busy without an error for ever: the embedded operation ends
\* or latches its error.
EraseNext ==
    \/ BlockEraseCall \/ BeRead1 \/ BeSoftReset \/ BeReread \/ BeRegister
    \/ BeErase \/ BlockEraseReturn
    \/ WriteCr \/ PollStatus \/ LegacyReset
    \/ DevComplete \/ DevFault
DriverStep ==
    \/ BeRead1 \/ BeSoftReset \/ BeReread \/ BeRegister \/ BeErase
    \/ WriteCr \/ PollStatus \/ LegacyReset
FairSpec ==
    /\ Init /\ [][EraseNext]_vars
    /\ WF_vars(DriverStep)
    /\ WF_vars(DevComplete \/ DevFault)

(* ====================== probe_spi_big_spansion ======================== *)
JEDEC_RDID == 159
\* A uint32_t is held as its four bytes, most significant first.
\* The descriptors probed for: manufacturer id (a number that may exceed a
\* byte) and model id
ProbeChips ==
    { [manufacture_id |-> m, model_id |-> w] :
         m \in {1, 257}, w \in { <<2, 25, 1, 129>>, <<25, 2, 129, 1>> } }
\* the six bytes the chip may answer RDID with
ProbeAnswers ==
    { <<b0, b1, b2, b3, b4, b5>> :
         b0 \in {1, 2}, b1 \in {2, 25}, b2 \in {25, 2}, b3 \in {77, 1},
         b4 \in {1, 129}, b5 \in {129, 1} }

\* variant: four consecutive bytes starting at offset 1
ModelIdArray_Contiguous(d) == <<d[2], d[3], d[4], d[5]>>
\* memcpy(model_id.array, dev_id + 1, 2); memcpy(model_id.array + 2, dev_id + 4, 2);
\* (dev_id[k] of the code is d[k + 1])
ModelIdArray(d) == <<d[2], d[3], d[5], d[6]>>
\* model_id.whole: the uint32_t the host reads from the four bytes of the union
Whole(array, le) ==
    IF le THEN <<array[4], array[3], array[2], array[1]>> ELSE array
\* be_to_cpu32: a byte swap on a little-endian host, nothing on a big-endian one
be_to_cpu32(w, le) == IF le THEN <<w[4], w[3], w[2], w[1]>> ELSE w
\* the value returned, from the result of the exchange and the bytes read
ProbeResult(r, d, c, le) ==
    IF r = 0
       THEN IF d[1] = c.manufacture_id
               THEN IF be_to_cpu32(Whole(ModelIdArray(d), le), le) = c.model_id
                       THEN 1 ELSE 0
               ELSE 0
       ELSE 0

\* the core calls the probe with a chip descriptor
ProbeCall ==
    /\ pc = "idle"
    /\ \E c \in ProbeChips : chip' = c
    /\ log' = <<>>
    /\ pc' = "probe_rdid"
    /\ UNCHANGED <<cr3nv_checked, chip_restore, dev, cont, flash, addr, blocklen,
                   cfg, data, rv, ret, slept, sess, calls, scall, closing, nreg,
                   fastPath, afterFast, entryChecked, orig, xfail, dev_id,
                   host_le, seg>>

\* ret = spi_send_command(flash, 1, 6, &cmd, dev_id) and the comparisons; the
\* buffer is not initialised, so after a failed exchange it holds anything
ProbeRdid ==
    /\ pc = "probe_rdid"
    /\ \E r \in Outcomes, d \in ProbeAnswers :
          /\ log' = Send(Ev("cmd", << <<JEDEC_RDID>> >>, r))
          /\ dev_id' = d
          /\ rv' = ProbeResult(r, d, chip, host_le)
    /\ pc' = "probe_ret"
    /\ UNCHANGED <<cr3nv_checked, chip_restore, dev, cont, flash, addr, blocklen,
                   cfg, data, ret, slept, sess, calls, scall, closing, nreg,
                   fastPath, afterFast, entryChecked, orig, xfail, chip,
                   host_le, seg>>

\* the core takes the result
ProbeReturn ==
    /\ pc = "probe_ret"
    /\ pc' = "idle"
    /\ log' = <<>> /\ rv' = 0 /\ dev_id' = NoId /\ chip' = NoChip
    /\ UNCHANGED <<cr3nv_checked, chip_restore, dev, cont, flash, addr, blocklen,
                   cfg, data, ret, slept, sess, calls, scall, closing, nreg,
                   fastPath, afterFast, entryChecked, orig, xfail, host_le, seg>>

\* the driver before its first erase, on a host of either byte order
ProbeInit ==
    /\ cr3nv_checked = 0
    /\ chip_restore = <<>>
    /\ dev = (1 :> IdleDev(0, TRUE))
    /\ pc = "idle" /\ cont = "none"
    /\ flash = 1
    /\ addr = 0 /\ blocklen = 0 /\ cfg = 0 /\ data = 0 /\ rv = 0 /\ ret = 0
    /\ slept = 0
    /\ log = <<>>
    /\ sess = 1 /\ calls = 0 /\ scall = 0 /\ closing = FALSE
    /\ nreg = 0
    /\ fastPath = FALSE /\ afterFast = 0
    /\ entryChecked = 0
    /\ orig = 0
    /\ xfail = FALSE
    /\ dev_id = NoId
    /\ chip = NoChip
    /\ host_le \in BOOLEAN
    /\ seg = NoSeg

ProbeNext == ProbeCall \/ ProbeRdid \/ ProbeReturn

ProbeSpec == ProbeInit /\ [][ProbeNext]_vars

(* ================ s25fs_write_cr, then s25fs_read_cr ================== *)
\* register addresses handed to the two functions (the last is above 2^24)
RegArgs == {2, CR3NV_ADDR, 16777216 + CR3NV_ADDR}
\* the data bytes written
RegValues == {0, 8, 18, 255}

\* a caller hands (addr, data) to s25fs_write_cr and will read addr back
RtCall ==
    /\ pc = "idle"
    /\ \E a \in RegArgs, v \in RegValues :
          /\ addr' = a
          /\ data' = v
    /\ log' = <<>>
    /\ cont' = "rt_read"
    /\ pc' = "wr_chain"
    /\ UNCHANGED toolVars
    /\ UNCHANGED <<cr3nv_checked, chip_restore, dev, flash, blocklen, cfg, rv,
                   ret, slept, sess, calls, scall, closing, nreg, fastPath,
                   afterFast, entryChecked, orig, xfail>>

\* s25fs_write_cr(flash, addr, data)
RtWriteCr == WriteCrAt(addr)

\* the caller keeps the result of the write in ret; then s25fs_read_cr(flash,
\* addr): rv is its local result (of spi_send_command), cfg its return value
RtReadCr ==
    /\ pc = "rt_read"
    /\ ret' = rv
    /\ \E r \in Outcomes :
          /\ xfail' = (xfail \/ r # 0)
          /\ rv' = r
          /\ cfg' = ReadCrResult(r, DevRdar(dev[flash], ReadCrCmd(addr)))
          /\ log' = Send(Ev("cmd", <<ReadCrCmd(addr)>>, cfg'))
    /\ pc' = "rt_ret"
    /\ UNCHANGED toolVars
    /\ UNCHANGED <<cr3nv_checked, chip_restore, dev, cont, flash, addr, blocklen,
                   data, slept, sess, calls, scall, closing, nreg, fastPath,
                   afterFast, entryChecked, orig>>

\* the caller takes the value read
RtReturn ==
    /\ pc = "rt_ret"
    /\ pc' = "idle"
    /\ log' = <<>>
    /\ addr' = 0 /\ cfg' = 0 /\ data' = 0 /\ rv' = 0 /\ ret' = 0 /\ slept' = 0
    /\ cont' = "none"
    /\ UNCHANGED toolVars
    /\ UNCHANGED <<cr3nv_checked, chip_restore, dev, flash, blocklen, sess,
                   calls, scall, closing, nreg, fastPath, afterFast,
                   entryChecked, orig, xfail>>

RegNext ==
    \/ RtCall \/ RtWriteCr \/ PollStatus \/ LegacyReset \/ RtReadCr \/ RtReturn
    \/ DevComplete \/ DevFault

RegSpec == Init /\ [][RegNext]_vars

(* ============================ segregator ============================== *)
\* the bytes of the input file, and the input files up to MaxLen bytes
SegBytes == {0, 1, 255}
SegInputs == UNION { [1..n -> SegBytes] : n \in 0..MaxLen }
Max(S) == CHOOSE x \in S : \A y \in S : y <= x

\* pad_size = blk_size*1024 - split_size%(blk_size*1024), or 0 without -p
PadSize(split_size, blk_size) ==
    IF blk_size # 0
       THEN blk_size * 1024 - (split_size % (blk_size * 1024))
       ELSE 0
\* evencontents after the loop and the memset: evencontents[i] = aggrcontents[i*2]
\* (index i of the code is i + 1 here)
EvenContents(aggr, blk_size) ==
    LET split_size == Len(aggr) \div 2
    IN  [i \in 1..(split_size + PadSize(split_size, blk_size)) |->
            IF i <= split_size THEN aggr[2 * (i - 1) + 1] ELSE 255]
\* oddcontents[i] = aggrcontents[i*2+1]
OddContents(aggr, blk_size) ==
    LET split_size == Len(aggr) \div 2
    IN  [i \in 1..(split_size + PadSize(split_size, blk_size)) |->
            IF i <= split_size THEN aggr[2 * (i - 1) + 2] ELSE 255]
\* aggrcontents[p*2] = evencontents[p]; aggrcontents[p*2+1] = oddcontents[p]
AggrContents(even, odd) ==
    [k \in 1..(2 * Len(even)) |->
        IF k % 2 = 1 THEN even[(k + 1) \div 2] ELSE odd[k \div 2]]
\* p when write_buf_to_file(aggrcontents, p, ..) is reached: evensize as the
\* interleaving loop leaves it, or with -u the cut the second loop finds
\* (buf[p + 1] is aggrcontents[p])
WrittenSize(buf, evensize, unpad_it) ==
    IF unpad_it = 0 THEN evensize
    ELSE LET nonff == {p \in 1..(evensize * 2 - 1) : buf[p + 1] # 255}
         IN  IF nonff = {} THEN 0
             ELSE Max(nonff) + (16 - (Max(nonff) % 16))

\* segregator -S -a aggr -e even -o odd [-p blk_size]
Segregate ==
    /\ pc = "seg_start"
    /\ \E b \in {0, 1} :
          IF Len(seg.aggr) = 0 \/ Len(seg.aggr) % 2 # 0
             THEN /\ seg' = [seg EXCEPT !.blk_size = b]
                  /\ rv' = 1
                  /\ pc' = "exit"
             ELSE /\ seg' = [seg EXCEPT !.blk_size = b,
                                        !.even = EvenContents(seg.aggr, b),
                                        !.odd = OddContents(seg.aggr, b)]
                  /\ rv' = 0
                  /\ pc' = "seg_done"
    /\ UNCHANGED <<cr3nv_checked, chip_restore, dev, cont, flash, addr, blocklen,
                   cfg, data, ret, slept, log, sess, calls, scall, closing, nreg,
                   fastPath, afterFast, entryChecked, orig, xfail, dev_id, chip,
                   host_le>>

\* segregator -A -e even -o odd -a out [-u]; the bytes written from beyond the
\* end of aggrcontents, if p exceeds its size, are counted in overrun
Aggregate ==
    /\ pc = "seg_done"
    /\ \E u \in {0, 1} :
          IF Len(seg.even) = 0 \/ Len(seg.odd) = 0 \/ Len(seg.even) # Len(seg.odd)
             THEN /\ seg' = [seg EXCEPT !.unpad_it = u]
                  /\ rv' = 1
                  /\ pc' = "exit"
             ELSE LET buf == AggrContents(seg.even, seg.odd)
                      p   == WrittenSize(buf, Len(seg.even), u)
                  IN  /\ seg' = [seg EXCEPT
                                   !.unpad_it = u,
                                   !.out = SubSeq(buf, 1, IF p < Len(buf) THEN p ELSE Len(buf)),
                                   !.overrun = IF p > Len(buf) THEN p - Len(buf) ELSE 0]
                      /\ rv' = 0
                      /\ pc' = "agg_done"
    /\ UNCHANGED <<cr3nv_checked, chip_restore, dev, cont, flash, addr, blocklen,
                   cfg, data, ret, slept, log, sess, calls, scall, closing, nreg,
                   fastPath, afterFast, entryChecked, orig, xfail, dev_id, chip,
                   host_le>>

\* an input file is in place and nothing has run
SegInit ==
    /\ cr3nv_checked = 0
    /\ chip_restore = <<>>
    /\ dev = (1 :> IdleDev(0, TRUE))
    /\ pc = "seg_start" /\ cont = "none"
    /\ flash = 1
    /\ addr = 0 /\ blocklen = 0 /\ cfg = 0 /\ data = 0 /\ rv = 0 /\ ret = 0
    /\ slept = 0
    /\ log = <<>>
    /\ sess = 1 /\ calls = 0 /\ scall = 0 /\ closing = FALSE
    /\ nreg = 0
    /\ fastPath = FALSE /\ afterFast = 0
    /\ entryChecked = 0
    /\ orig = 0
    /\ xfail = FALSE
    /\ dev_id = NoId
    /\ chip = NoChip
    /\ host_le = TRUE
    /\ \E in \in SegInputs : seg = [NoSeg EXCEPT !.aggr = in]

SegNext == Segregate \/ Aggregate

SegSpec == SegInit /\ [][SegNext]_vars

(* ===================== properties of the driver ======================= *)
\* what an entry of the log is
IsRdar(e) == e.k = "cmd" /\ e.f[1][1] = CMD_RDAR
IsWrar(e) == e.k = "chain" /\ e.f[2][1] = CMD_WRAR
IsForcedReset(e) == e.k = "chain" /\ e.f = SoftwareResetCmds
IsLegacyReset(e) == e.k = "chain" /\ e.f = LegacyResetCmds
IsErase(e) == e.k = "chain" /\ e.f[2][1] = JEDEC_BE_D8
IsSample(e) == e.k = "rdsr"
IsReg(e) == e.k = "reg"
IsArchOp(e) == IsRdar(e) \/ IsWrar(e) \/ IsForcedReset(e)
Idx == 1..Len(log)
\* the log belongs to a call of s25fs_block_erase_d8 (not to the restore callback)
InErase == ~closing /\ pc # "idle"
Returned == ~closing /\ pc = "ret"
\* the indices of the architecture-register reads of the running call, in order
Rdars == {i \in Idx : IsRdar(log[i])}
NthRdar(n) == CHOOSE i \in Rdars : Cardinality({j \in Rdars : j < i}) = n - 1

\* C1: after a conversion from original value O (bit 3 clear), a restoration
\* that ran with result 0 has put exactly O back into the architecture register
\* (stated for the runs in which no exchange failed in the transport).
C1_RestoreRoundTrip ==
    (pc = "rs_ret" /\ ret = 0 /\ ~xfail) => Cr3nv(dev[flash]) = orig

\* C2 as stated: in one session every call after the first performs no
\* architecture-register read, write or forced reset, whatever the first did
\* (stated for the runs in which no exchange failed in the transport).
C2_AtMostOnceAnyOutcome ==
    (InErase /\ scall >= 2 /\ ~xfail) => \A i \in Idx : ~IsArchOp(log[i])

\* C2 amended: a call entered with the checked flag set performs no
\* architecture-register read, write or forced reset, its first bus action is
\* the erase chain, and no call performs the write/reset/verify sequence twice.
C2_NoOpOnceChecked ==
    InErase =>
       /\ entryChecked = 1 =>
             /\ \A i \in Idx : ~IsArchOp(log[i]) /\ ~IsReg(log[i])
             /\ log # <<>> => IsErase(log[1])
       /\ Cardinality({i \in Idx : IsWrar(log[i])}) <= 1
       /\ Cardinality({i \in Idx : IsForcedReset(log[i])}) <= 1

\* a second call of a session, entered with the flag set, has returned success
C2_Witness ==
    Returned /\ scall = 2 /\ entryChecked = 1 /\ rv = 0 /\ IsErase(log[1])

\* C3: once the read at the head of the check has returned a value with bit 3
\* set, no WRAR chain and no forced reset is issued and no restoration entry is
\* registered, in that call and ever after, and the checked flag is set.
C3_UniformFastPath ==
    fastPath =>
       /\ afterFast = 0
       /\ cr3nv_checked = 1
       /\ chip_restore = <<>>
       /\ \A i \in Idx : ~IsWrar(log[i]) /\ ~IsForcedReset(log[i]) /\ ~IsReg(log[i])

\* the first read returned the register with bit 3 set (no transport failure),
\* and a later call of the session has returned too
C3_Witness ==
    /\ fastPath /\ Returned /\ scall = 2 /\ entryChecked = 1 /\ rv = 0
    /\ Bit(Cr3nv(dev[flash]), 8)

\* the last status sample of the running call
LastSample == log[CHOOSE i \in Idx : IsSample(log[i]) /\ \A j \in Idx : j > i => ~IsSample(log[j])]
HasSample == \E i \in Idx : IsSample(log[i])

\* C4: when s25fs_block_erase_d8 returns 0, the last status value the poller
\* sampled has WIP, the erase-error bit and the program-error bit all clear
\* (and the chip's status register is in that state).
C4_SuccessMeansIdle ==
    (Returned /\ rv = 0) =>
       /\ HasSample
       /\ ~Bit(LastSample.v, SPI_SR_WIP)
       /\ ~Bit(LastSample.v, SPI_SR_ERA_ERR)
       /\ ~Bit(LastSample.v, SPI_SR_PRG_ERR)
       /\ dev[flash].sr = 0

\* a successful erase whose poller found the chip busy at least once
C4_Witness ==
    /\ Returned /\ rv = 0 /\ slept >= 1
    /\ \E i \in Idx : IsSample(log[i]) /\ Bit(log[i].v, SPI_SR_WIP)

\* the erase chain went out and the poller then sampled an error
ErasePollFault ==
    \E i \in Idx : /\ IsErase(log[i]) /\ log[i].v = 0
                   /\ \E j \in Idx : j > i /\ IsSample(log[j])
                                     /\ PollStep(log[j].v) = "fault"

\* C5: when the erase fails on an erase/program error seen by the poller, a
\* reset chain has completed and the chip is idle again when the call returns.
C5_FaultLeavesChipReset ==
    (Returned /\ ErasePollFault) =>
       /\ \E i \in Idx : (IsLegacyReset(log[i]) \/ IsForcedReset(log[i])) /\ log[i].v = 0
       /\ dev[flash].sr = 0

\* the re-read after the write and the forced reset came back with bit 3 clear
RereadStillHybrid ==
    /\ InErase /\ Cardinality(Rdars) >= 2
    /\ ~Bit(ToU8(log[NthRdar(2)].v), 8)

\* C6: if the re-read still has bit 3 clear, the call returns non-zero without
\* an erase chain, without a restoration entry and without a second
\* write/reset/verify round.
C6_VerifyFailureIsFatal ==
    RereadStillHybrid =>
       /\ pc = "ret" /\ rv # 0
       /\ \A i \in Idx : ~IsErase(log[i]) /\ ~IsReg(log[i])
       /\ Cardinality({i \in Idx : IsWrar(log[i])}) = 1
       /\ Cardinality({i \in Idx : IsForcedReset(log[i])}) = 1
       /\ Cardinality(Rdars) = 2
       /\ cr3nv_checked = 0

\* the write went out, the chip refused it, and the verification failed
C6_Witness ==
    /\ RereadStillHybrid /\ pc = "ret"
    /\ \E i \in Idx : IsWrar(log[i]) /\ log[i].v = 0

\* a Read-Any-Register exchange of the running call failed
RdarFailed == InErase /\ \E i \in Rdars : log[i].v = -1

\* C7: a failed Read-Any-Register exchange makes the call fail, sets no checked
\* flag and is followed by no erase chain.
C7_ReadFailureSurfaced ==
    RdarFailed =>
       /\ cr3nv_checked = entryChecked
       /\ \A i \in Idx : ~IsErase(log[i])
       /\ pc = "ret" => rv # 0

\* C8: the flag of one session never suppresses the check of another: the first
\* call of every session reads the architecture register and converts a
\* hybrid chip, so when it has returned success the chip of that session is in
\* the uniform layout (stated for the runs in which no exchange failed in the
\* transport).
C8_SessionScopedFlag ==
    (Returned /\ scall = 1 /\ rv = 0 /\ ~xfail) => Bit(Cr3nv(dev[flash]), 8)

\* C9: a session registers at most one restoration entry, and none once the
\* architecture register has been read with bit 3 set.
C9_AtMostOneEntry ==
    /\ nreg <= 1
    /\ Len(chip_restore) <= nreg
    /\ fastPath => nreg = 0

\* an entry was registered and a later call of the session has returned
C9_Witness ==
    /\ Returned /\ scall = 2 /\ nreg = 1 /\ Len(chip_restore) = 1

\* the result the poller hands back on its last sample
PollerResult == IF PollStep(LastSample.v) = "clean" THEN 0 ELSE -1

\* C10: a failed erase chain ends the call with that result, with no delay and
\* no status sample after it; a successful one is followed by a delay of
\* 145000 us, then by status samples, and the call returns the poller's result.
C10_EraseChainResult ==
    InErase =>
       \A i \in Idx : IsErase(log[i]) =>
          IF log[i].v # 0
             THEN i = Len(log) /\ pc = "ret" /\ rv = log[i].v
             ELSE /\ Len(log) > i /\ log[i + 1] = Ev("delay", <<>>, 145000)
                  /\ Len(log) > i + 1 => IsSample(log[i + 2])
                  /\ pc \in {"poll", "lreset", "ret"}
                  /\ pc = "ret" => (HasSample /\ rv = PollerResult)

\* the erase chain failed with result 1 and the call returned 1
C10_Witness ==
    /\ Returned /\ rv = 1
    /\ IsErase(log[Len(log)]) /\ log[Len(log)].v = 1

(* ------------------------- the status poller -------------------------- *)
\* what a status sample shows, read off its bits
SampleIdle(e) == IsSample(e) /\ ~Bit(e.v, 1)
SampleError(e) == IsSample(e) /\ Bit(e.v, 1) /\ (Bit(e.v, 32) \/ Bit(e.v, 64))
SampleBusy(e) == IsSample(e) /\ Bit(e.v, 1) /\ ~Bit(e.v, 32) /\ ~Bit(e.v, 64)
IsSleep(e) == e.k = "delay" /\ e.v = 10000
IsSettle(e) == e.k = "delay" /\ e.v = 145000
\* where the poller returns to once its last bus action is in the log
AfterPoll == pc \in {"be_reset", "rs_reset", "ret"}
\* the last entry of the legacy reset that starts at log[i]: the chain itself
\* when it failed, else the delay that follows it
ResetEnd(i) == IF log[i].v # 0 THEN i ELSE i + 1

\* C11: a status sample with WIP set together with the erase-error or the
\* program-error bit is followed by the legacy reset chain (0x66, 0xF0), once,
\* and then by the return of the poller with a fault result: no sleep of 10 ms,
\* no further status sample and no second reset chain follow it.
C11_FaultSampleResets ==
    \A i \in Idx : SampleError(log[i]) =>
       /\ i = Len(log) => pc = "lreset"
       /\ i < Len(log) =>
             /\ log[i + 1].k = "chain"
             /\ log[i + 1].f = << <<102>>, <<240>> >>
             /\ Len(log) >= ResetEnd(i + 1)
             /\ Len(log) = ResetEnd(i + 1) => (AfterPoll /\ rv = -1)
             /\ Len(log) > ResetEnd(i + 1) =>
                   LET n == log[ResetEnd(i + 1) + 1]
                   IN  ~IsSample(n) /\ ~IsSleep(n) /\ ~IsLegacyReset(n)

\* the first sample after the erase chain showed WIP with the erase error, the
\* reset chain went out and the call has returned the fault
C11_Witness ==
    /\ Returned /\ rv = -1 /\ Len(log) >= 4
    /\ IsErase(log[Len(log) - 3]) /\ IsSettle(log[Len(log) - 2])
    /\ log[Len(log) - 1] = Ev("rdsr", <<>>, 33)
    /\ IsLegacyReset(log[Len(log)])

\* the entry before which the poller that took sample i was entered: the last
\* settle delay in front of i
PollEntry(i) ==
    CHOOSE s \in 1..i : /\ IsSettle(log[s])
                        /\ \A m \in (s + 1)..i : ~IsSettle(log[m])

\* C12: in every invocation of the poller, a status sample comes right after
\* the settle delay or after a sleep, a sleep of 10000 us comes right after a
\* busy sample, and a busy sample is followed by one sleep and one new sample;
\* so a sample with WIP clear that comes after N busy samples is the (N+1)-th
\* sample and comes after exactly N sleeps.  On it the poller returns clean,
\* and no reset chain goes out.
C12_SleepPerBusySample ==
    \A i \in Idx :
       /\ IsSample(log[i]) => (i > 1 /\ (IsSettle(log[i - 1]) \/ IsSleep(log[i - 1])))
       /\ IsSleep(log[i]) => (i > 1 /\ SampleBusy(log[i - 1]))
       /\ SampleBusy(log[i]) =>
             /\ Len(log) > i /\ IsSleep(log[i + 1])
             /\ Len(log) = i + 1 => pc = "poll"
             /\ Len(log) > i + 1 => IsSample(log[i + 2])
       /\ SampleIdle(log[i]) =>
             /\ Len(log) = i =>
                   LET s == PollEntry(i)
                   IN  /\ AfterPoll /\ rv = 0
                       /\ (i - s) % 2 = 1
                       /\ slept = (i - s - 1) \div 2
                       /\ \A m \in (s + 1)..(i - 1) :
                             IF (m - s) % 2 = 1 THEN SampleBusy(log[m])
                                                ELSE IsSleep(log[m])
             /\ Len(log) > i => LET n == log[i + 1]
                                IN  ~IsLegacyReset(n) /\ ~IsSample(n) /\ ~IsSleep(n)

\* the erase poller took two busy samples, slept twice, and returned clean on
\* the third sample
C12_Witness ==
    /\ Returned /\ rv = 0 /\ slept = 2 /\ Len(log) >= 7
    /\ IsErase(log[Len(log) - 6]) /\ IsSettle(log[Len(log) - 5])
    /\ SampleBusy(log[Len(log) - 4]) /\ IsSleep(log[Len(log) - 3])
    /\ SampleBusy(log[Len(log) - 2]) /\ IsSleep(log[Len(log) - 1])
    /\ SampleIdle(log[Len(log)])

(* ------------------------ the restore callback ------------------------ *)
\* the forced reset of the running restoration
RsReset == CHOOSE k \in Idx : IsForcedReset(log[k])
\* the write step reported an error: its chain failed or its poller saw a fault
RsWriteError == log[1].v # 0 \/ \E i \in Idx : SampleError(log[i])

\* C13: when s25fs_restore_cr3nv is about to return, its first bus action was
\* the WRAR chain carrying the captured value to address 0x000004, the forced
\* reset chain (0x66, 0x99) went out once, after the write and whatever the
\* write's outcome, and the result is non-zero exactly when the write step or
\* the reset chain reported an error.
C13_RestoreOrsErrors ==
    pc = "rs_ret" =>
       /\ log[1].k = "chain"
       /\ log[1].f = << <<6>>, <<113, 0, 0, 4, cfg>> >>
       /\ Cardinality({k \in Idx : IsForcedReset(log[k])}) = 1
       /\ RsReset > 1 /\ Len(log) = ResetEnd(RsReset)
       /\ \A k \in 2..(RsReset - 1) : log[k].k # "chain" \/ IsLegacyReset(log[k])
       /\ (ret # 0) <=> (RsWriteError \/ log[RsReset].v # 0)

\* the write chain failed, the forced reset went out all the same and
\* succeeded, and the callback reports the error
C13_Witness ==
    /\ pc = "rs_ret" /\ ret # 0 /\ Len(log) = 3
    /\ IsWrar(log[1]) /\ log[1].v # 0
    /\ IsForcedReset(log[2]) /\ log[2].v = 0

(* ----------------------- order of the commands ------------------------ *)
\* a frame whose opcode modifies the chip: Write Any Register or block erase
Modifies(frame) == frame[1] = 113 \/ frame[1] = 216

\* C17: a Write Any Register (0x71) or block erase (0xD8) frame never goes out
\* as an exchange of its own; in the chain that carries it, the frame right
\* before it is the write enable (0x06).
C17_WriteEnableInSameChain ==
    \A i \in Idx :
       LET f == log[i].f
       IN  \A c \in 1..Len(f) :
              Modifies(f[c]) =>
                 /\ log[i].k = "chain"
                 /\ c > 1
                 /\ f[c - 1] = <<6>>

\* a call in which both the register write and the erase went out
C17_Witness ==
    /\ Returned
    /\ \E i, j \in Idx : /\ i < j
                         /\ log[i].k = "chain" /\ log[i].f[2][1] = 113 /\ log[i].v = 0
                         /\ log[j].k = "chain" /\ log[j].f[2][1] = 216 /\ log[j].v = 0

(* --------------------------- the conversion --------------------------- *)
\* the running call began with a successful read of the architecture register
\* that returned a value with bit 3 clear
FirstReadHybrid ==
    /\ InErase /\ log # <<>> /\ IsRdar(log[1])
    /\ log[1].v \in 0..255 /\ ~Bit(log[1].v, 8)
\* index of the first WRAR chain, and of the first forced reset chain, or 0
FirstWrar == IF \E i \in Idx : IsWrar(log[i])
                THEN CHOOSE i \in Idx : IsWrar(log[i]) /\ \A j \in 1..(i - 1) : ~IsWrar(log[j])
                ELSE 0
FirstForcedReset ==
    IF \E i \in Idx : IsForcedReset(log[i])
       THEN CHOOSE i \in Idx : IsForcedReset(log[i]) /\ \A j \in 1..(i - 1) : ~IsForcedReset(log[j])
       ELSE 0
\* the write of O | 0x08 to 0x000004, the forced reset and the re-read of
\* 0x000004 go out in this order, each before any erase chain
ConversionInOrder ==
    /\ Len(log) >= 2 =>
          /\ log[2].k = "chain"
          /\ log[2].f = << <<6>>, <<113, 0, 0, 4, log[1].v + 8>> >>
    /\ \A e \in Idx : IsErase(log[e]) =>
          /\ Cardinality(Rdars) >= 2
          /\ 1 < FirstWrar /\ FirstWrar < FirstForcedReset
          /\ FirstForcedReset < NthRdar(2) /\ NthRdar(2) < e
          /\ log[NthRdar(2)].f = << <<101, 0, 0, 4, 0, 0, 0, 0, 0, 0, 0, 0>> >>
    /\ Cardinality(Rdars) >= 2 => (0 < FirstForcedReset /\ FirstForcedReset < NthRdar(2))
\* the checked flag was set, or an erase chain went out, in the running call
FlagSetOrErased == cr3nv_checked = 1 \/ \E e \in Idx : IsErase(log[e])

\* C18: when the first read returned O with bit 3 clear, the call issues the
\* write of O | 0x08 to 0x000004, then the forced reset chain, then the re-read
\* of 0x000004, in this order and before any erase chain; the checked flag is
\* set and the erase chain goes out only if that re-read returned a register
\* value with bit 3 set.
C18_ConvertThenVerify ==
    (FirstReadHybrid /\ entryChecked = 0) =>
       /\ ConversionInOrder
       /\ FlagSetOrErased =>
             /\ Cardinality(Rdars) >= 2
             /\ log[NthRdar(2)].v \in 0..255
             /\ Bit(log[NthRdar(2)].v, 8)

\* the order alone, and the gate on the byte the code tests (0xFF when the
\* re-read failed)
C18_OrderAndGateOnCfg ==
    (FirstReadHybrid /\ entryChecked = 0) =>
       /\ ConversionInOrder
       /\ FlagSetOrErased =>
             /\ Cardinality(Rdars) >= 2
             /\ Bit(ToU8(log[NthRdar(2)].v), 8)

(* --------------------------- s25fs_write_cr --------------------------- *)
\* s25fs_write_cr has returned to its caller and nothing has been sent since
WriteCrReturned == pc \in {"be_reset", "rs_reset"}

\* C19: a failed WRAR chain is followed by no delay and no status sample, and
\* s25fs_write_cr returns an error; a successful one is followed by a delay of
\* 145000 us and then by the first status sample, and s25fs_write_cr returns
\* what the poller returns: 0 when its last sample had WIP clear, the fault
\* otherwise.  So it returns 0 exactly when the chain succeeded and the poll
\* was clean.
C19_WriteCrResult ==
    \A i \in Idx : (log[i].k = "chain" /\ log[i].f[2][1] = 113) =>
       /\ IF log[i].v # 0
             THEN /\ Len(log) = i => (WriteCrReturned /\ rv # 0)
                  /\ Len(log) > i => (log[i + 1].k = "chain" /\ log[i + 1].f[2] = <<153>>)
             ELSE /\ Len(log) > i
                  /\ log[i + 1] = Ev("delay", <<>>, 145000)
                  /\ Len(log) = i + 1 => pc = "poll"
                  /\ Len(log) > i + 1 => IsSample(log[i + 2])
       /\ WriteCrReturned =>
             (rv = 0 <=> /\ log[i].v = 0
                         /\ IsSample(log[Len(log)])
                         /\ ~Bit(log[Len(log)].v, 1))

\* the chain succeeded, the chip latched a program error, and s25fs_write_cr
\* has returned the poller's fault
C19_Witness ==
    /\ WriteCrReturned /\ rv = -1
    /\ \E i \in Idx : /\ IsWrar(log[i]) /\ log[i].v = 0
                      /\ Len(log) >= i + 2
                      /\ IsSample(log[i + 2]) /\ log[i + 2].v = 65

(* ----------------------------- termination --------------------------- *)
\* the poller is not running
PollerDone == pc # "poll" /\ pc # "lreset"
\* a step that takes the program out of the polling loop
LeavesLoop == pc = "poll" /\ pc' # "poll"

\* C20: the poller leaves its loop only on a status sample with WIP clear or
\* with WIP and an error bit set, never on a count of samples; and if the chip
\* does not stay busy without an error for ever, every run of the poller ends
\* and every call of s25fs_block_erase_d8 reaches its return.
C20_PollerRunsToCompletion ==
    /\ [][LeavesLoop => (SampleIdle(log'[Len(log')]) \/ SampleError(log'[Len(log')]))]_vars
    /\ (pc = "poll") ~> PollerDone
    /\ InErase ~> (pc = "ret")

\* the erase poller found the chip busy MaxPolls times, then the error, and
\* the call has returned
C20_Witness ==
    /\ Returned /\ rv = -1 /\ slept = MaxPolls
    /\ \E i \in Idx : SampleError(log[i]) /\ i > 2 /\ IsSleep(log[i - 1])

(* ----------------------------- the resets ---------------------------- *)
\* a chain that carries a reset opcode: 0xF0 (legacy) or 0x99 (forced)
CarriesReset(e) ==
    e.k = "chain" /\ \E c \in 1..Len(e.f) : e.f[c] = <<240>> \/ e.f[c] = <<153>>

\* C21: every chain that carries a reset opcode is the two-command chain
\* reset-enable (0x66), reset (0xF0 or 0x99); when it succeeded a delay of
\* 70 us follows it, when it failed no delay follows it, and in neither case
\* is the same chain sent again right after; the forced reset hands its
\* result to its caller, so a restoration whose write step was clean returns
\* exactly the result of the reset chain.
C21_ResetChainOnce ==
    /\ \A i \in Idx : CarriesReset(log[i]) =>
          /\ Len(log[i].f) = 2 /\ log[i].f[1] = <<102>>
          /\ IF log[i].v = 0
                THEN /\ Len(log) > i
                     /\ log[i + 1] = Ev("delay", <<>>, 70)
                     /\ Len(log) > i + 1 => log[i + 2].f # log[i].f
                ELSE Len(log) > i => (log[i + 1].k # "delay" /\ log[i + 1].f # log[i].f)
    /\ (pc = "rs_ret" /\ ~RsWriteError) => ret = log[RsReset].v

\* a restoration whose write was clean and whose forced reset failed with
\* result 1 returns 1
C21_Witness ==
    /\ pc = "rs_ret" /\ ~RsWriteError /\ ret = 1
    /\ log[Len(log)] = Ev("chain", << <<102>>, <<153>> >>, 1)

(* --------------------------- the erase frame -------------------------- *)
\* the low 24 bits of the caller's address
Low24 == addr % 16777216

\* C22: every erase chain of a call carries, after the write enable, the frame
\* 0xD8 followed by the low 24 bits of the caller's address, most significant
\* byte first; the frame is the same for every block length and for every
\* address with the same low 24 bits, and an address at or above 2^24 is not
\* refused.
C22_EraseFrameLow24 ==
    InErase =>
       /\ \A i \in Idx :
             (log[i].k = "chain" /\ log[i].f[2][1] = 216) =>
                log[i].f = << <<6>>, <<216, Low24 \div 65536, (Low24 \div 256) % 256,
                                       Low24 % 256>> >>
       /\ pc = "ret" => (rv = 1 \/ \E i \in Idx : log[i].k = "chain" /\ log[i].f[2][1] = 216)

\* an erase at 0x01010203 with block length 256 KiB went out as D8 01 02 03
\* and the call returned success
C22_Witness ==
    /\ Returned /\ rv = 0 /\ addr = 16777216 + 66051 /\ blocklen = 262144
    /\ \E i \in Idx : log[i] = Ev("chain", << <<6>>, <<216, 1, 2, 3>> >>, 0)

(* ------------------------------ the probe ----------------------------- *)
\* C14: probe_spi_big_spansion returns 1 exactly when the exchange succeeded,
\* byte 0 of the answer equals the manufacturer id and bytes 1, 2, 4, 5, taken
\* in that order as a big-endian 32-bit number, equal the model id; otherwise
\* it returns 0.  Byte 3 does not enter the condition.
C14_ProbeIdentifies ==
    pc = "probe_ret" =>
       /\ rv \in {0, 1}
       /\ rv = 1 <=> /\ log[1].v = 0
                     /\ dev_id[1] = chip.manufacture_id
                     /\ dev_id[2] = chip.model_id[1]
                     /\ dev_id[3] = chip.model_id[2]
                     /\ dev_id[5] = chip.model_id[3]
                     /\ dev_id[6] = chip.model_id[4]

\* the probe identified the chip although byte 3 of the answer differs from
\* every byte of the descriptor
C14_Witness ==
    /\ pc = "probe_ret" /\ rv = 1 /\ log[1].v = 0
    /\ dev_id = <<1, 2, 25, 77, 1, 129>>
    /\ chip = [manufacture_id |-> 1, model_id |-> <<2, 25, 1, 129>>]

(* ---------------------- register write and read ----------------------- *)
\* the write that the read-back follows was reported successful, and so was
\* the read
RtBothOk == pc = "rt_ret" /\ ret = 0 /\ rv = 0

\* C15: when s25fs_write_cr(A, V) has returned 0 (chain sent, settle delay,
\* poller clean) and the s25fs_read_cr(A) that follows it with no command in
\* between has succeeded, the read returns exactly V; every successful read
\* returns a value in 0..255 and every failed one returns -1.
C15_RegisterRoundTrip ==
    pc = "rt_ret" =>
       /\ rv = 0 => cfg \in 0..255
       /\ rv # 0 => cfg = -1
       /\ RtBothOk =>
             /\ cfg = data
             /\ log[1].k = "chain" /\ log[1].v = 0 /\ IsSettle(log[2])
             /\ \A i \in 3..(Len(log) - 1) : IsSample(log[i]) \/ IsSleep(log[i])
             /\ SampleIdle(log[Len(log) - 1])
             /\ IsRdar(log[Len(log)])

\* 0xFF was written to CR1NV, which held 0, and read back
C15_Witness ==
    /\ RtBothOk /\ addr = 2 /\ data = 255 /\ cfg = 255
    /\ \E i \in Idx : SampleBusy(log[i])

(* ---------------------------- segregator ------------------------------ *)
\* C16: segregating a non-empty input of even length without padding and then
\* aggregating the two files without unpadding writes a file equal to the
\* input, byte for byte and in length; the even file holds the input bytes
\* 0, 2, 4, ... and the odd file the bytes 1, 3, 5, ...
C16_SegregateAggregateRoundTrip ==
    (pc = "agg_done" /\ seg.blk_size = 0 /\ seg.unpad_it = 0) =>
       /\ \A i \in 1..Len(seg.even) : seg.even[i] = seg.aggr[2 * i - 1]
       /\ \A i \in 1..Len(seg.odd) : seg.odd[i] = seg.aggr[2 * i]
       /\ Len(seg.out) = Len(seg.aggr)
       /\ seg.out = seg.aggr
       /\ seg.overrun = 0

====
